---- MODULE Spec2Model ----
(***************************************************************************)
(* Starlit Stories: the chat front end (App, generateStory), the FlipCard  *)
(* component and the draft/validate retry loop of the story pipeline.      *)
(*                                                                         *)
(* Text is a sequence of tokens: a typed input is a sequence of single     *)
(* characters, a fixed literal of the code is a one-token sequence, and    *)
(* string concatenation is \o.  The JavaScript values undefined and null   *)
(* are two reserved one-token sequences no text is drawn from.             *)
(*                                                                         *)
(* React: a discrete event (submit, change, contextmenu, touchstart,       *)
(* touchend) is followed by a synchronous re-render, so every event        *)
(* handler reads the state left by the previous event.  A callback that    *)
(* outlives its event (the long-press timer, the code after an await)      *)
(* keeps the values its closure captured when it was created.              *)
(***************************************************************************)
EXTENDS Integers, Sequences, FiniteSets, TLC

VARIABLES
    \* ---- App (src/frontend/src/App-simple.tsx 154-262)
    messages,      \* useState<Message[]>([])
    input,         \* useState('')
    isGenerating,  \* useState(false)
    threadId,      \* useState<string | null>(null)
    calls,         \* the handleSubmit invocations suspended at their await
    sent,          \* the requests posted to /generate_story, in order
    lastThread,    \* thread_id of the latest response that carried one
    lastEvent,     \* which handler ran last
    now,           \* Date.now()
    \* ---- FlipCard (src/unnamed/part_000 19-53)
    mounted,        \* the card is on the page
    isFlipped,      \* useState(false)
    longPressTimer, \* useState<NodeJS.Timeout | null>(null)
    timers,         \* the pending setTimeout callbacks, each with the
                    \* isFlipped its closure captured
    fingers,        \* touches that started and have not ended
    clicks,         \* right-clicks so far
    touches,        \* touchstart events so far
    cardEvent,      \* which FlipCard callback ran last
    \* ---- story pipeline, draft/validate loop (spec 4.4)
    state,             \* Drafting, Validating, Accepted, Retrying, Exhausted
    attempt_count,
    max_iterations,
    drafts,            \* the body of every draft generated, in order
    rejection_reasons,
    formatted,         \* the FormattedResponse, once there is one
    validator,         \* "rejects": stubbed to reject; "judges": free
    \* ---- api/generateStory.ts, the helpers (App-simple.tsx 429-458)
    probes             \* the getExamples / healthCheck calls made, each with
                       \* how its GET settled and the promise returned

appVars == <<messages, input, isGenerating, threadId, calls, sent, lastThread,
             lastEvent, now>>

cardVars == <<mounted, isFlipped, longPressTimer, timers, fingers, clicks,
              touches, cardEvent>>

loopVars == <<state, attempt_count, max_iterations, drafts, rejection_reasons,
              formatted, validator>>

apiVars == <<probes>>

vars == <<appVars, cardVars, loopVars, apiVars>>

\* ------------------------------------------------------------------ bounds

MaxInputLen == 2
MaxSubmits == 2
MaxThreadSubmits == 3
MaxClicks == 3
MaxTouches == 3
MaxIterations == 3
MaxProbes == 2
MaxClock == 3

\* ------------------------------------------------------------- JavaScript

undefined == <<"undefined">>
null == <<"null">>

\* JavaScript truthiness of a string-or-undefined-or-null value
Truthy(v) == v # undefined /\ v # null /\ v # <<>>

\* a || b
Or(a, b) == IF Truthy(a) THEN a ELSE b

Space == " "
Chars == {Space, "a"}

RECURSIVE trimStart(_)
trimStart(s) ==
    IF s # <<>> /\ Head(s) = Space THEN trimStart(Tail(s)) ELSE s

RECURSIVE trimEnd(_)
trimEnd(s) ==
    IF s # <<>> /\ s[Len(s)] = Space THEN trimEnd(SubSeq(s, 1, Len(s) - 1)) ELSE s

\* String.prototype.trim
trim(s) == trimEnd(trimStart(s))

Strings(n) == UNION {[1..k -> Chars] : k \in 0..n}

\* ------------------------------------------------- api/generateStory.ts

\* the texts a backend answer is built from
StoryText == <<"Once upon a time">>
TitleText == <<"The Brave Mouse">>
MoralText == <<"Be kind">>
ErrorText == <<"validation failed">>
DetailText == <<"Internal Server Error">>
AxiosMessage == <<"Network Error">>
OtherMessage == <<"TypeError">>
ThreadIds == {<<"t1">>, <<"t2">>}

\* interface StoryRequest
Request(prompt, tid) ==
    [user_input |-> prompt, length_tier |-> "medium", thread_id |-> tid]

\* interface StoryResponse, each field as the backend may fill or omit it
Responses(tids) ==
    [success : BOOLEAN,
     story : {undefined, <<>>, StoryText},
     title : {undefined, <<>>, TitleText},
     moral : {undefined, MoralText},
     error : {undefined, ErrorText},
     thread_id : tids]

\* what apiClient.post settles with: a 2xx answer, an AxiosError (with or
\* without a response body carrying detail), or another thrown value
HttpOutcomes(tids) ==
    [kind : {"response"}, data : Responses(tids)]
    \cup [kind : {"axios_error"}, detail : {undefined, <<>>, DetailText},
          message : {AxiosMessage}]
    \cup [kind : {"other_error"}, error : {[message |-> OtherMessage]}]

FailedPrefix == <<"Failed to generate story: ">>

\* a slip: the server's detail is dropped
errorMessageNoDetail(o) == o.message

\* error.response?.data?.detail || error.message
errorMessage(o) == Or(o.detail, o.message)

\* generateStory: the promise it returns, given how the post settled
generateStory(o) ==
    CASE o.kind = "response" ->
           [state |-> "fulfilled", value |-> o.data]
      [] o.kind = "axios_error" ->
           [state |-> "rejected",
            reason |-> [message |-> FailedPrefix \o errorMessage(o)]]
      [] o.kind = "other_error" ->
           [state |-> "rejected", reason |-> o.error]

\* the fallback prompts of getExamples
FallbackExamples ==
    <<"Tell me a story about a brave little mouse",
      "I want to hear about a friendly dragon who loves to bake",
      "Create a story about a curious star exploring the night sky">>

\* what apiClient.get('/examples') settles with: a 2xx answer whose body
\* has examples or lacks them, a 2xx answer with a null body, or an error
ExamplesOutcomes ==
    [kind : {"response"},
     data : [examples : {undefined, <<>>, <<"a prompt">>,
                         <<"a prompt", "another prompt">>}]]
    \cup {[kind |-> "null_body"]}
    \cup [kind : {"axios_error"}, detail : {undefined, DetailText},
          message : {AxiosMessage}]
    \cup [kind : {"other_error"}, error : {[message |-> OtherMessage]}]

\* what apiClient.get('/health') settles with
HealthOutcomes ==
    [kind : {"response"},
     data : [status : {undefined, <<"healthy">>, <<"degraded">>, <<"Healthy">>}]]
    \cup {[kind |-> "null_body"]}
    \cup [kind : {"axios_error"}, detail : {undefined, DetailText},
          message : {AxiosMessage}]
    \cup [kind : {"other_error"}, error : {[message |-> OtherMessage]}]

\* getExamples: the promise it returns; reading .examples of a null body
\* throws inside the try, so it ends in the catch like a failed request
getExamples(o) ==
    IF o.kind = "response"
    THEN [state |-> "fulfilled", value |-> o.data.examples]
    ELSE [state |-> "fulfilled", value |-> FallbackExamples]

\* a slip: any status the server reports counts as healthy
healthCheckAnyStatus(o) ==
    IF o.kind = "response"
    THEN [state |-> "fulfilled", value |-> Truthy(o.data.status)]
    ELSE [state |-> "fulfilled", value |-> FALSE]

\* healthCheck: the promise it returns
healthCheck(o) ==
    IF o.kind = "response"
    THEN [state |-> "fulfilled", value |-> (o.data.status = <<"healthy">>)]
    ELSE [state |-> "fulfilled", value |-> FALSE]

\* a caller awaits getExamples()
GetExamples ==
    /\ Len(probes) < MaxProbes
    /\ \E o \in ExamplesOutcomes :
          probes' = Append(probes, [fn |-> "getExamples", http |-> o,
                                    promise |-> getExamples(o)])
    /\ UNCHANGED <<appVars, cardVars, loopVars>>

\* a caller awaits healthCheck()
HealthCheck ==
    /\ Len(probes) < MaxProbes
    /\ \E o \in HealthOutcomes :
          probes' = Append(probes, [fn |-> "healthCheck", http |-> o,
                                    promise |-> healthCheck(o)])
    /\ UNCHANGED <<appVars, cardVars, loopVars>>

InitApi == probes = <<>>

NextApi ==
    \/ GetExamples
    \/ HealthCheck

\* ------------------------------------------------------------------- App

ApologyText ==
    <<"Sorry, I encountered an error generating your story. Please try again with a different request.">>
StoryGenerated == <<"Story Generated">>
FailedDefault == <<"Failed to generate story">>

\* the thread_id generateStoryFromBackend sends: threadId || undefined
SentThread(tid) == Or(tid, undefined)

\* a slip: the thread is set once and never replaced
ThreadAfterOnlyFirst(p, tid) ==
    IF p.state = "fulfilled" /\ Truthy(p.value.thread_id) /\ ~Truthy(tid)
    THEN p.value.thread_id
    ELSE tid

\* if (response.thread_id) setThreadId(response.thread_id)
ThreadAfter(p, tid) ==
    IF p.state = "fulfilled" /\ Truthy(p.value.thread_id)
    THEN p.value.thread_id
    ELSE tid

\* generateStoryFromBackend after its await: what it returns or throws
StoryData(p) ==
    IF p.state = "rejected" THEN p
    ELSE LET response == p.value IN
         IF response.success /\ Truthy(response.story)
         THEN IF Truthy(response.title)
              THEN [state |-> "fulfilled",
                    value |-> [title |-> response.title,
                               text |-> response.story,
                               moral |-> response.moral,
                               isConversational |-> FALSE]]
              ELSE [state |-> "fulfilled",
                    value |-> [title |-> undefined,
                               text |-> response.story,
                               moral |-> undefined,
                               isConversational |-> TRUE]]
         ELSE [state |-> "rejected",
               reason |-> [message |-> Or(response.error, FailedDefault)]]

RECURSIVE toString(_)
\* Number.prototype.toString of a non-negative integer: its decimal digits
toString(n) ==
    IF n < 10 THEN <<n>> ELSE Append(toString(n \div 10), n % 10)

\* a slip: the message shows the input as typed
UserMessageUntrimmed(t, text) ==
    [id |-> toString(t), role |-> "user", content |-> text]

\* handleSubmit: userMessage
UserMessage(t, text) ==
    [id |-> toString(t), role |-> "user", content |-> trim(text)]

\* a slip: the story is attached to a conversational reply too
AssistantMessageAlwaysStory(t, storyData) ==
    [id |-> toString(t + 1), role |-> "assistant",
     content |-> Or(storyData.title, StoryGenerated),
     story |-> [title |-> Or(storyData.title, <<>>),
                text |-> Or(storyData.text, <<>>),
                moral |-> Or(storyData.moral, <<>>)]]

\* handleSubmit: assistantMessage (story: undefined leaves the field out)
AssistantMessage(t, storyData) ==
    IF storyData.isConversational
    THEN [id |-> toString(t + 1), role |-> "assistant", content |-> storyData.text]
    ELSE [id |-> toString(t + 1), role |-> "assistant",
          content |-> Or(storyData.title, StoryGenerated),
          story |-> [title |-> Or(storyData.title, <<>>),
                     text |-> Or(storyData.text, <<>>),
                     moral |-> Or(storyData.moral, <<>>)]]

\* handleSubmit: errorMessage
ErrorMessage(t) ==
    [id |-> toString(t + 1), role |-> "assistant", content |-> ApologyText]

\* a slip: the catch block shows the error it caught
ReplyMessageShowsError(t, sd) ==
    IF sd.state = "fulfilled" THEN AssistantMessage(t, sd.value)
    ELSE [id |-> toString(t + 1), role |-> "assistant", content |-> sd.reason.message]

\* the message handleSubmit appends once generateStoryFromBackend settled
ReplyMessage(t, sd) ==
    IF sd.state = "fulfilled" THEN AssistantMessage(t, sd.value) ELSE ErrorMessage(t)

HasStory(m) == "story" \in DOMAIN m

\* the JSX of one message: user bubble, FlipCard or assistant bubble
Render(m) ==
    IF m.role = "user" THEN [kind |-> "user-bubble", text |-> m.content]
    ELSE IF HasStory(m)
         THEN [kind |-> "FlipCard", title |-> m.story.title,
               story |-> m.story.text, moral |-> m.story.moral]
         ELSE [kind |-> "assistant-bubble", text |-> m.content]

\* a slip: the input is tested without trimming
SubmitRejectedNoTrim == input = <<>> \/ isGenerating

\* if (!input.trim() || isGenerating) return;
SubmitRejected == trim(input) = <<>> \/ isGenerating

\* <input disabled={isGenerating}>
InputDisabled == isGenerating

\* a slip: the flag is not raised
GeneratingOnStartForgotten == isGenerating

\* setIsGenerating(true) at the start of generateStoryFromBackend
GeneratingOnStart == TRUE

\* onChange={(e) => setInput(e.target.value)}
SetInput(values) ==
    /\ ~InputDisabled
    /\ \E v \in values : input' = v
    /\ lastEvent' = "change"
    /\ UNCHANGED <<messages, isGenerating, threadId, calls, sent, lastThread, now>>
    /\ UNCHANGED <<cardVars, loopVars, apiVars>>

\* handleSubmit up to its await: the early return, or the user message, the
\* cleared input and the request posted by generateStoryFromBackend
HandleSubmit(limit) ==
    /\ lastEvent' = "submit"
    /\ UNCHANGED <<cardVars, loopVars, apiVars>>
    /\ IF SubmitRejected
       THEN UNCHANGED <<messages, input, isGenerating, threadId, calls, sent,
                        lastThread, now>>
       ELSE /\ Len(sent) < limit
            /\ messages' = Append(messages, UserMessage(now, input))
            /\ input' = <<>>
            /\ isGenerating' = GeneratingOnStart
            /\ sent' = Append(sent, Request(trim(input), SentThread(threadId)))
            /\ calls' = Append(calls, [state |-> "awaiting"])
            /\ UNCHANGED <<threadId, lastThread, now>>

\* the post of call i settles and generateStory's promise with it
HttpSettles(outcomes) ==
    \E i \in 1..Len(calls) : \E o \in outcomes :
        /\ calls[i].state = "awaiting"
        /\ calls' = [calls EXCEPT ![i] =
                        [state |-> "settled", http |-> o, promise |-> generateStory(o)]]
        /\ lastThread' = IF o.kind = "response" /\ Truthy(o.data.thread_id)
                         THEN o.data.thread_id ELSE lastThread
        /\ lastEvent' = "settle"
        /\ UNCHANGED <<messages, input, isGenerating, threadId, sent, now>>
        /\ UNCHANGED <<cardVars, loopVars, apiVars>>

RemoveAt(s, i) == SubSeq(s, 1, i - 1) \o SubSeq(s, i + 1, Len(s))

\* a slip: the flag is lowered in the try block only
GeneratingOnlyOnSuccess(sd) == sd.state = "rejected"

\* the state handleSubmit's finally block leaves in isGenerating
GeneratingOnFinally(sd) == FALSE

\* a slip: the catch block only logs, no apology is appended
ContinuationSilentCatch ==
    \E i \in 1..Len(calls) :
        /\ calls[i].state = "settled"
        /\ LET p == calls[i].promise
               sd == StoryData(p)
           IN /\ threadId' = ThreadAfter(p, threadId)
              /\ messages' = IF sd.state = "fulfilled"
                             THEN Append(messages, ReplyMessage(now, sd))
                             ELSE messages
              /\ isGenerating' = GeneratingOnFinally(sd)
        /\ calls' = RemoveAt(calls, i)
        /\ lastEvent' = "continuation"
        /\ UNCHANGED <<input, sent, lastThread, now>>
        /\ UNCHANGED <<cardVars, loopVars, apiVars>>

\* call i resumes after its await: generateStoryFromBackend's tail, then
\* handleSubmit's try / catch / finally
Continuation ==
    \E i \in 1..Len(calls) :
        /\ calls[i].state = "settled"
        /\ LET p == calls[i].promise
               sd == StoryData(p)
           IN /\ threadId' = ThreadAfter(p, threadId)
              /\ messages' = Append(messages, ReplyMessage(now, sd))
              /\ isGenerating' = GeneratingOnFinally(sd)
        /\ calls' = RemoveAt(calls, i)
        /\ lastEvent' = "continuation"
        /\ UNCHANGED <<input, sent, lastThread, now>>
        /\ UNCHANGED <<cardVars, loopVars, apiVars>>

\* ------------------------------------------------------------- FlipCard

\* a slip: the right-click always shows the moral
FlippedByContextMenuStuck == TRUE

\* handleContextMenu: setIsFlipped(!isFlipped)
FlippedByContextMenu == ~isFlipped

\* clearTimeout(id): a timer that already fired or was cleared is left alone
clearTimeout(pending, id) == {t \in pending : t.id # id}

\* the cleanup of the effect on [longPressTimer], run when the value the
\* effect was created with (old) is replaced or the card unmounts
EffectCleanup(pending, old) ==
    IF old # null THEN clearTimeout(pending, old) ELSE pending

\* the side the render puts in the flow: the flipped class and the sides'
\* positions follow isFlipped
CardShows == IF isFlipped THEN "moral" ELSE "story"

\* onContextMenu
HandleContextMenu ==
    /\ mounted
    /\ clicks < MaxClicks
    /\ isFlipped' = FlippedByContextMenu
    /\ clicks' = clicks + 1
    /\ cardEvent' = "contextmenu"
    /\ UNCHANGED <<mounted, longPressTimer, timers, fingers, touches>>
    /\ UNCHANGED <<appVars, loopVars, apiVars>>

\* onTouchStart: a timer whose callback captures this render's isFlipped;
\* the re-render with the new longPressTimer cleans the previous effect up
HandleTouchStart ==
    /\ mounted
    /\ touches < MaxTouches
    /\ LET timer == <<"Timeout", touches + 1>>
       IN /\ timers' = EffectCleanup(timers, longPressTimer)
                          \cup {[id |-> timer, captured |-> isFlipped]}
          /\ longPressTimer' = timer
    /\ fingers' = fingers + 1
    /\ touches' = touches + 1
    /\ cardEvent' = "touchstart"
    /\ UNCHANGED <<mounted, isFlipped, clicks>>
    /\ UNCHANGED <<appVars, loopVars, apiVars>>

\* onTouchEnd
HandleTouchEnd ==
    /\ mounted
    /\ fingers > 0
    /\ IF longPressTimer # null
       THEN /\ timers' = EffectCleanup(clearTimeout(timers, longPressTimer),
                                       longPressTimer)
            /\ longPressTimer' = null
       ELSE UNCHANGED <<timers, longPressTimer>>
    /\ fingers' = fingers - 1
    /\ cardEvent' = "touchend"
    /\ UNCHANGED <<mounted, isFlipped, clicks, touches>>
    /\ UNCHANGED <<appVars, loopVars, apiVars>>

\* the 500 ms of a pending timer are over: setIsFlipped(!isFlipped) with
\* the isFlipped of the render that started the touch
TimerFires ==
    \E t \in timers :
        /\ timers' = timers \ {t}
        /\ isFlipped' = IF mounted THEN ~t.captured ELSE isFlipped
        /\ cardEvent' = "timer"
        /\ UNCHANGED <<mounted, longPressTimer, fingers, clicks, touches>>
        /\ UNCHANGED <<appVars, loopVars, apiVars>>

\* the card leaves the page: the effect's cleanup runs a last time
Unmount ==
    /\ mounted
    /\ mounted' = FALSE
    /\ timers' = EffectCleanup(timers, longPressTimer)
    /\ cardEvent' = "unmount"
    /\ UNCHANGED <<isFlipped, longPressTimer, fingers, clicks, touches>>
    /\ UNCHANGED <<appVars, loopVars, apiVars>>

InitCard ==
    /\ mounted = TRUE
    /\ isFlipped = FALSE
    /\ longPressTimer = null
    /\ timers = {}
    /\ fingers = 0
    /\ clicks = 0
    /\ touches = 0
    /\ cardEvent = "mount"

NextCard ==
    \/ HandleContextMenu
    \/ HandleTouchStart
    \/ HandleTouchEnd
    \/ TimerFires
    \/ Unmount

\* ---------------------------------------------- draft / validate loop

MAX_STORY_ITERATIONS == 3

DraftBodies == {<<"draft one">>, <<"draft two">>}
RefusalText == <<"Let us try a gentler story">>
Categories == {"violence", "adult_themes", "fear", "other"}

\* ValidationVerdict
Verdicts(stub) ==
    {[accepted |-> FALSE, reasons |-> {c}] : c \in Categories}
    \cup (IF stub = "rejects" THEN {} ELSE {[accepted |-> TRUE, reasons |-> {}]})

\* a slip: the bound is compared with <= and one draft too many is made
MayRetryOffByOne == attempt_count <= max_iterations

\* rejected and attempt_count < max_iterations
MayRetry == attempt_count < max_iterations

\* Exhausted: a gentle conversational refusal, never the rejected draft
ExhaustedResponse ==
    [kind |-> "ConversationalResult", text |-> RefusalText]

\* Drafting: one draft from the gateway, attempt_count incremented
Draft ==
    /\ state = "Drafting"
    /\ \E body \in DraftBodies : drafts' = Append(drafts, body)
    /\ attempt_count' = attempt_count + 1
    /\ state' = "Validating"
    /\ UNCHANGED <<max_iterations, rejection_reasons, formatted, validator>>
    /\ UNCHANGED <<appVars, cardVars, apiVars>>

\* Validating: the verdict and the transition it asks for
Validate ==
    /\ state = "Validating"
    /\ \E v \in Verdicts(validator) :
          IF v.accepted
          THEN /\ state' = "Accepted"
               /\ formatted' = [kind |-> "StoryResult", story |-> drafts[Len(drafts)]]
               /\ UNCHANGED rejection_reasons
          ELSE /\ rejection_reasons' = Append(rejection_reasons, v.reasons)
               /\ IF MayRetry
                  THEN state' = "Retrying" /\ UNCHANGED formatted
                  ELSE state' = "Exhausted" /\ formatted' = ExhaustedResponse
    /\ UNCHANGED <<attempt_count, max_iterations, drafts, validator>>
    /\ UNCHANGED <<appVars, cardVars, apiVars>>

\* Retrying: back to Drafting with the reasons as constraints
Retry ==
    /\ state = "Retrying"
    /\ state' = "Drafting"
    /\ UNCHANGED <<attempt_count, max_iterations, drafts, rejection_reasons,
                   formatted, validator>>
    /\ UNCHANGED <<appVars, cardVars, apiVars>>

\* a request about to be drafted under the default configuration
InitLoopDefault ==
    /\ state = "Drafting"
    /\ attempt_count = 0
    /\ max_iterations = MAX_STORY_ITERATIONS
    /\ drafts = <<>>
    /\ rejection_reasons = <<>>
    /\ formatted = undefined
    /\ validator = "judges"

\* a request under any configured max_iterations and either validator
InitLoop ==
    /\ state = "Drafting"
    /\ attempt_count = 0
    /\ max_iterations \in 1..MaxIterations
    /\ drafts = <<>>
    /\ rejection_reasons = <<>>
    /\ formatted = undefined
    /\ validator \in {"rejects", "judges"}

NextLoop ==
    \/ Draft
    \/ Validate
    \/ Retry

\* ---------------------------------------------------------------- specs

InitApp ==
    /\ messages = <<>>
    /\ input = <<>>
    /\ isGenerating = FALSE
    /\ threadId = null
    /\ calls = <<>>
    /\ sent = <<>>
    /\ lastThread = undefined
    /\ lastEvent = "mount"
    /\ now = 0

Init == InitApp /\ InitCard /\ InitLoopDefault /\ InitApi

\* every shape of answer, each on the thread t1 (the thread_id varies in
\* ThreadOutcomes)
AppOutcomes == HttpOutcomes({<<"t1">>})

AppInputs == Strings(MaxInputLen)

\* the chat with every shape of answer, on one thread
Next ==
    \/ SetInput(AppInputs)
    \/ HandleSubmit(MaxSubmits)
    \/ HttpSettles(AppOutcomes)
    \/ Continuation

Spec == Init /\ [][Next]_vars

\* axios gives up after its 120 s timeout, so every post settles, and the
\* continuation of a settled promise is a microtask that always runs
SpecLive ==
    Spec /\ WF_vars(HttpSettles(AppOutcomes))
         /\ WF_vars(Continuation)

\* the answers that matter to the thread: each thread_id, on a story, a
\* refusal and a failed call
ThreadOutcomes ==
    {o \in HttpOutcomes({undefined, <<>>} \cup ThreadIds) :
        \/ o.kind = "axios_error" /\ o.detail = undefined
        \/ /\ o.kind = "response"
           /\ o.data.story = StoryText /\ o.data.title = TitleText
           /\ o.data.moral = MoralText /\ o.data.error = undefined}

NextThread ==
    \/ SetInput({<<"a">>})
    \/ HandleSubmit(MaxThreadSubmits)
    \/ HttpSettles(ThreadOutcomes)
    \/ Continuation

SpecThread == Init /\ [][NextThread]_vars

SpecCard == Init /\ [][NextCard]_vars

InitAnyLoop == InitApp /\ InitCard /\ InitLoop /\ InitApi

SpecLoop == InitAnyLoop /\ [][NextLoop]_vars

SpecApi == Init /\ [][NextApi]_vars

\* Date.now() moves on by a millisecond between two steps of the page
Tick ==
    /\ now < MaxClock
    /\ now' = now + 1
    /\ UNCHANGED <<messages, input, isGenerating, threadId, calls, sent,
                   lastThread, lastEvent>>
    /\ UNCHANGED <<cardVars, loopVars, apiVars>>

\* a story and a failed call
ClockOutcomes ==
    {o \in AppOutcomes :
        \/ o.kind = "axios_error" /\ o.detail = undefined
        \/ /\ o.kind = "response"
           /\ o.data.story = StoryText /\ o.data.title = TitleText
           /\ o.data.moral = MoralText /\ o.data.error = undefined}

ClockInputs == {<<"a">>}

\* the chat under a running clock
NextClock ==
    \/ Tick
    \/ SetInput(ClockInputs)
    \/ HandleSubmit(MaxSubmits)
    \/ HttpSettles(ClockOutcomes)
    \/ Continuation

SpecClock == Init /\ [][NextClock]_vars

\* ------------------------------------------------------------ properties

\* call i resumed in this step: its continuation ran and it is gone
Resumed(i) ==
    /\ i \in 1..Len(calls)
    /\ calls[i].state = "settled"
    /\ calls' = RemoveAt(calls, i)
    /\ lastEvent' = "continuation"

\* the message this step appended
Appended == messages'[Len(messages')]

\* the answer asks for the apology: success is false or there is no story text
FailedResponse(r) == ~r.success \/ ~Truthy(r.story)

\* C1: a submit whose input is empty or only whitespace once trimmed posts
\* no request, appends no message and leaves messages, threadId and
\* isGenerating as they were.
C1_EmptySubmitSendsNothing ==
    [][(lastEvent' = "submit" /\ trim(input) = <<>>)
         => UNCHANGED <<messages, threadId, isGenerating, calls, sent>>]_vars

\* a whitespace-only input was submitted and nothing was sent
C1_Witness ==
    /\ lastEvent = "submit"
    /\ input # <<>> /\ trim(input) = <<>>
    /\ sent = <<>> /\ messages = <<>>

\* what C2 says of the message appended for answer r
TitleDecides(r, m) ==
    IF Truthy(r.title)
    THEN /\ HasStory(m)
         /\ m.story = [title |-> r.title, text |-> r.story,
                       moral |-> Or(r.moral, <<>>)]
         /\ Render(m).kind = "FlipCard"
    ELSE /\ ~HasStory(m)
         /\ Render(m) = [kind |-> "assistant-bubble", text |-> r.story]

\* C2 as stated: for every answer with success = true the title alone
\* decides between the flip-card and the plain bubble showing the reply.
C2_Original ==
    [][\A i \in 1..Len(calls) :
          (Resumed(i) /\ calls[i].http.kind = "response"
             /\ calls[i].http.data.success)
          => TitleDecides(calls[i].http.data, Appended)]_vars

\* C2 amended: for every answer with success = true and a non-empty story
\* text, the title alone decides: absent or empty gives a plain bubble
\* showing the reply text, present gives a message carrying
\* {title, text, moral} rendered as a flip-card.
C2_TitleDecidesGivenStoryText ==
    [][\A i \in 1..Len(calls) :
          (Resumed(i) /\ calls[i].http.kind = "response"
             /\ calls[i].http.data.success
             /\ Truthy(calls[i].http.data.story))
          => TitleDecides(calls[i].http.data, Appended)]_vars

\* a flip-card and a plain reply bubble are both in the log
C2_Witness ==
    /\ Len(messages) = 4
    /\ Render(messages[2]) = [kind |-> "FlipCard", title |-> TitleText,
                               story |-> StoryText, moral |-> MoralText]
    /\ Render(messages[4]) = [kind |-> "assistant-bubble", text |-> StoryText]

\* C3: each request carries the thread_id of the most recent answer that
\* had one, and none while no answer has supplied one.
C3_ThreadContinuity ==
    [][sent' # sent => sent'[Len(sent')].thread_id = lastThread]_vars

\* three requests: none, then t1, then t2 after the thread changed
C3_Witness ==
    /\ Len(sent) = 3
    /\ sent[1].thread_id = undefined
    /\ sent[2].thread_id = <<"t1">>
    /\ sent[3].thread_id = <<"t2">>

\* how the post of a call ended in failure for the user
FailedCall(c) ==
    c.http.kind # "response" \/ FailedResponse(c.http.data)

\* C4: when a request fails (success = false, no story text, or the call
\* throws) the message appended is exactly the fixed apology, shown as a
\* plain bubble, and the earlier messages stay as they were.
C4_FailureShowsApology ==
    [][\A i \in 1..Len(calls) :
          (Resumed(i) /\ FailedCall(calls[i]))
          => /\ messages' = Append(messages, Appended)
             /\ Appended.role = "assistant"
             /\ Appended.content = ApologyText
             /\ ~HasStory(Appended)
             /\ Render(Appended) = [kind |-> "assistant-bubble",
                                    text |-> ApologyText]]_vars

\* an answer with success = false, an error text and a story text was
\* answered by the apology
C4_Witness ==
    /\ lastEvent = "continuation"
    /\ Len(messages) = 2
    /\ messages[2].content = ApologyText
    /\ threadId = <<"t1">>

\* C6: at most one request is in flight, and a submit made while one is
\* outstanding changes nothing.
C6_OneRequestInFlight ==
    /\ [](Len(calls) <= 1)
    /\ [][(isGenerating /\ lastEvent' = "submit")
            => UNCHANGED <<messages, input, isGenerating, threadId, calls, sent>>]_vars

\* a submit arrived after the answer and before the continuation
C6_Witness ==
    /\ lastEvent = "submit"
    /\ Len(calls) = 1 /\ calls[1].state = "settled"
    /\ Len(sent) = 2

\* C7: isGenerating is true exactly while a call is suspended; it is
\* lowered in the step that appends the assistant message, and every
\* request gets there.
C7_GeneratingWhileProcessing ==
    /\ [](isGenerating <=> calls # <<>>)
    /\ [][(isGenerating /\ ~isGenerating')
            => /\ Len(messages') = Len(messages) + 1
               /\ Appended.role = "assistant"]_vars
    /\ (isGenerating ~> ~isGenerating)

\* a request that threw was answered and the flag is down
C7_Witness ==
    /\ ~isGenerating
    /\ lastEvent = "continuation"
    /\ Len(messages) = 4
    /\ messages[2].content = ApologyText
    /\ HasStory(messages[4])

\* C5: attempt_count starts at 0, counts the drafts and never exceeds
\* max_iterations; with max_iterations = 1 there is no retry; and when the
\* validator rejects every draft the loop ends in Exhausted after exactly
\* max_iterations drafts with a conversational refusal that is none of the
\* rejected drafts.
C5_RetryBound ==
    /\ attempt_count = Len(drafts)
    /\ attempt_count <= max_iterations
    /\ (drafts = <<>> => state = "Drafting")
    /\ (max_iterations = 1 => state # "Retrying")
    /\ (validator = "rejects" => state # "Accepted")
    /\ ((validator = "rejects" /\ state = "Exhausted")
          => /\ Len(drafts) = max_iterations
             /\ Len(rejection_reasons) = max_iterations
             /\ formatted.kind = "ConversationalResult"
             /\ \A k \in 1..Len(drafts) : formatted.text # drafts[k])

\* three drafts were rejected under max_iterations = 3 and the loop is
\* exhausted
C5_Witness ==
    /\ validator = "rejects"
    /\ max_iterations = 3
    /\ state = "Exhausted"
    /\ Len(drafts) = 3
    /\ formatted = [kind |-> "ConversationalResult", text |-> RefusalText]

\* C8: the card starts on the story side and, while no touch event has
\* happened, it shows the moral exactly after an odd number of
\* right-clicks.
C8_RightClickParity ==
    touches = 0 => (CardShows = "moral" <=> clicks % 2 = 1)

\* three right-clicks, no touch: the moral shows
C8_Witness ==
    touches = 0 /\ clicks = 3 /\ CardShows = "moral"

\* C9 as stated: a touch end leaves no timer pending and isFlipped as it
\* was, and a timer that fires negates the isFlipped of that moment.
C9_LongPressToggles ==
    /\ [][(cardEvent' = "touchend") => (timers' = {} /\ isFlipped' = isFlipped)]_vars
    /\ [][(cardEvent' = "timer" /\ mounted) => isFlipped' = ~isFlipped]_vars

\* C10: generateStory resolves with the body of a 2xx answer; an axios
\* error rejects with "Failed to generate story: " and the server's
\* detail (when it is there and not empty) or else the axios message; any
\* other error rejects with that same error.
C10_GenerateStoryOutcome ==
    \A i \in 1..Len(calls) :
        calls[i].state = "settled" =>
            LET o == calls[i].http
                p == calls[i].promise
            IN CASE o.kind = "response" ->
                      p = [state |-> "fulfilled", value |-> o.data]
                 [] o.kind = "axios_error" ->
                      /\ p.state = "rejected"
                      /\ p.reason.message =
                            FailedPrefix \o (IF Truthy(o.detail) THEN o.detail
                                             ELSE o.message)
                 [] o.kind = "other_error" ->
                      p = [state |-> "rejected", reason |-> o.error]

\* an axios error with a detail has settled
C10_Witness ==
    \E i \in 1..Len(calls) :
        /\ calls[i].state = "settled"
        /\ calls[i].http.kind = "axios_error"
        /\ calls[i].http.detail = DetailText
        /\ calls[i].promise.reason.message = FailedPrefix \o DetailText

\* C11: getExamples and healthCheck never reject; a failed GET gives the
\* three fallback prompts, resp. false; healthCheck gives true only for a
\* GET that succeeded with status 'healthy'.
C11_HelpersNeverThrow ==
    \A k \in 1..Len(probes) :
        LET c == probes[k]
            failed == c.http.kind \in {"axios_error", "other_error"}
        IN /\ c.promise.state = "fulfilled"
           /\ (c.fn = "getExamples" /\ failed)
                => (c.promise.value = FallbackExamples /\ Len(c.promise.value) = 3)
           /\ (c.fn = "healthCheck" /\ failed) => c.promise.value = FALSE
           /\ (c.fn = "healthCheck" /\ c.promise.value = TRUE)
                => (c.http.kind = "response" /\ c.http.data.status = <<"healthy">>)

\* a failed getExamples gave the fallback, a failed healthCheck false
C11_Witness ==
    /\ Len(probes) = 2
    /\ probes[1].fn = "getExamples" /\ probes[1].http.kind = "axios_error"
    /\ probes[1].promise.value = FallbackExamples
    /\ probes[2].fn = "healthCheck" /\ probes[2].http.kind = "other_error"
    /\ probes[2].promise.value = FALSE

\* the user messages of the log, in order
UserMessages == SelectSeq(messages, LAMBDA m : m.role = "user")

\* C12: the prompt of each request is the trimmed text shown in the user
\* message of the same submit, although the input is cleared before the
\* request is issued; every request has length_tier 'medium'.
C12_PromptIsShownText ==
    /\ [](/\ Len(sent) = Len(UserMessages)
          /\ \A k \in 1..Len(sent) :
                /\ sent[k].user_input = UserMessages[k].content
                /\ sent[k].length_tier = "medium")
    /\ [][sent' # sent
            => /\ sent'[Len(sent')].user_input = trim(input)
               /\ Appended.role = "user"
               /\ Appended.content = trim(input)
               /\ input' = <<>>]_vars

\* two requests went out with the texts of the two user messages, and
\* the input is empty
C12_Witness ==
    /\ Len(sent) = 2 /\ Len(messages) = 3
    /\ lastEvent = "submit"
    /\ input = <<>>
    /\ sent[1].user_input = <<"a">> /\ messages[1].content = <<"a">>
    /\ sent[2].user_input = <<"a", "a">> /\ messages[3].content = <<"a", "a">>

\* C13: the log alternates user, assistant, ... from a user message; an
\* accepted submit appends one user message and a completion one
\* assistant message; a step changes the log only by appending one
\* message; and the log ends with an unanswered user message exactly
\* while a request is in flight.
C13_MessageLog ==
    /\ [](/\ \A k \in 1..Len(messages) :
                messages[k].role = IF k % 2 = 1 THEN "user" ELSE "assistant"
          /\ (Len(messages) % 2 = 1 <=> calls # <<>>))
    /\ [][messages' # messages => messages' = Append(messages, Appended)]_vars
    /\ [][sent' # sent
            => (messages' = Append(messages, Appended) /\ Appended.role = "user")]_vars
    /\ [][Len(calls') < Len(calls)
            => (messages' = Append(messages, Appended)
                /\ Appended.role = "assistant")]_vars

\* a second request is in flight: the log ends with its user message
C13_Witness ==
    /\ Len(messages) = 3
    /\ messages[2].content = ApologyText
    /\ messages[3].role = "user"
    /\ Len(calls) = 1

\* C14: the ids of the messages in the list are pairwise distinct,
\* whatever non-decreasing readings the clock gives.
C14_DistinctIds ==
    \A j, k \in 1..Len(messages) :
        j # k => messages[j].id # messages[k].id

====
